---- MODULE Spec2Model ----
(***************************************************************************)
(* Model of the streaming pipeline of the Skald Go SDK (src/client.go):    *)
(* Client.StreamedChat, doRequest, checkResponse and parseSSEStream, with  *)
(* the caller as the consumer of the two returned channels.                *)
(*                                                                         *)
(* A body line is a sequence of text tokens: the characters of its framing *)
(* one by one, and the JSON payload of a data line as one token.           *)
(***************************************************************************)
EXTENDS Naturals, Sequences, FiniteSets, TLC

\* ------------------------------------------------------------------ bounds

\* longest response body, in lines
MaxLines == 3

\* the longest body of each of two calls that run side by side
MaxPairLines == 2

\* ------------------------------------------------------- program constants

\* errChan := make(chan error, 1)
ErrChanCap == 1

\* the status codes a response may carry (both edges of the 2xx range)
StatusCodes == {199, 200, 299, 300, 404}

\* no response obtained (yet)
NoStatus == 0

\* ------------------------------------------------------------------- lines

DataPrefix == <<"d", "a", "t", "a", ":", " ">>

\* JSON payload texts
JTokA == "{\"type\":\"token\",\"content\":\"A\"}"
JTokB == "{\"type\":\"token\",\"content\":\"B\"}"
JDone == "{\"type\":\"done\"}"
JCustom == "{\"type\":\"custom\",\"extra\":1}"
JBad == "invalid json here"
\* token events padded with white space: with the six characters of "data: " the
\* line is one byte short of the scanner's limit, at the limit, one byte over it
JWide == "{\"type\":\"token\",\"content\":\"W\"} padded to 65529 bytes"
JEdge == "{\"type\":\"token\",\"content\":\"E\"} padded to 65530 bytes"
JOver == "{\"type\":\"token\",\"content\":\"O\"} padded to 65531 bytes"
JEmptyObj == "{}"
JNullText == "null"
JNoType == "{\"content\":\"A\"}"

LEmpty == <<>>
LPing == <<":", " ", "p">>
LOther == <<"e", "v", ":", " ", "x">>
LTokA == DataPrefix \o <<JTokA>>
LTokB == DataPrefix \o <<JTokB>>
LDone == DataPrefix \o <<JDone>>
LCustom == DataPrefix \o <<JCustom>>
LBad == DataPrefix \o <<JBad>>
LEmptyObj == DataPrefix \o <<JEmptyObj>>
LNull == DataPrefix \o <<JNullText>>
LNoType == DataPrefix \o <<JNoType>>

\* lines of other framings: an 'id' field, 'data:' with no space after the colon,
\* a data line behind a space
LId == <<"i", "d", ":", " ", "1">>
LNoSpace == <<"d", "a", "t", "a", ":", JTokA>>
LLeadSpace == <<" ">> \o LTokA

LWide == DataPrefix \o <<JWide>>
LEdge == DataPrefix \o <<JEdge>>
LOver == DataPrefix \o <<JOver>>

\* the bytes of a part of a line
TokenBytes(tok) ==
    CASE tok = JWide -> 65529
      [] tok = JEdge -> 65530
      [] tok = JOver -> 65531
      [] OTHER -> Len(tok)

\* len(line)
RECURSIVE LineBytes(_)
LineBytes(line) ==
    IF line = <<>> THEN 0 ELSE TokenBytes(Head(line)) + LineBytes(Tail(line))

\* bufio.MaxScanTokenSize, the buffer limit of bufio.NewScanner
MaxScanTokenSize == 64 * 1024

\* a scanner with no limit on the length of a line
TooLongNever(line) == FALSE

\* the scanner's buffer is full and holds no end of line: bufio.ErrTooLong
TooLong(line) == LineBytes(line) >= MaxScanTokenSize

\* the lines a response body of the streaming specification is made of
Lines == {LEmpty, LPing, LOther, LTokA, LTokB, LDone, LCustom, LBad}

RECURSIVE SeqsUpTo(_, _)
SeqsUpTo(S, n) ==
    IF n = 0 THEN {<<>>}
    ELSE LET shorter == SeqsUpTo(S, n - 1)
         IN  shorter \cup {Append(s, x) : s \in {t \in shorter : Len(t) = n - 1}, x \in S}

Bodies == SeqsUpTo(Lines, MaxLines)

\* the lines of a body of the fair specification: a skipped line, an event, a
\* malformed payload and the sentinel
LiveLines == {LPing, LTokA, LBad, LDone}

LiveBodies == SeqsUpTo(LiveLines, MaxLines)

\* the lines of a body of the payload-shape specification: data lines whose payload
\* is valid JSON with and without a "type"
ShapeLines == {LTokA, LEmptyObj, LNull, LNoType, LDone}

ShapeBodies == SeqsUpTo(ShapeLines, MaxLines)

\* the lines of a body of the long-line specification: events in lines about the
\* scanner's limit
LongLines == {LTokA, LWide, LEdge, LOver, LDone}

LongBodies == SeqsUpTo(LongLines, MaxLines)

\* the lines of a body of the framing specification: lines that are no data line,
\* among events
FramingLines == {LOther, LId, LNoSpace, LLeadSpace, LTokA, LDone}

FramingBodies == SeqsUpTo(FramingLines, MaxLines)

\* ------------------------------------------------------------ JSON decoding

JNull == [k |-> "null"]
JStr(s) == [k |-> "string", v |-> s]
JNum(n) == [k |-> "number", v |-> n]
JObj(f) == [k |-> "object", f |-> f]
JInvalid == [k |-> "invalid"]

\* the JSON value a payload text denotes (JInvalid: not JSON)
JSONParse(text) ==
    CASE text = JTokA -> JObj([type |-> JStr("token"), content |-> JStr("A")])
      [] text = JTokB -> JObj([type |-> JStr("token"), content |-> JStr("B")])
      [] text = JDone -> JObj([type |-> JStr("done")])
      [] text = JWide -> JObj([type |-> JStr("token"), content |-> JStr("W")])
      [] text = JEdge -> JObj([type |-> JStr("token"), content |-> JStr("E")])
      [] text = JOver -> JObj([type |-> JStr("token"), content |-> JStr("O")])
      [] text = JCustom -> JObj([type |-> JStr("custom"), extra |-> JNum(1)])
      [] text = JEmptyObj -> JObj(<<>>)
      [] text = JNullText -> JNull
      [] text = JNoType -> JObj([content |-> JStr("A")])
      [] OTHER -> JInvalid

\* ChatStreamEvent{}: the zero value (Content is a *string: <<>> is nil)
ZeroEvent == [Type |-> "", Content |-> <<>>, ChatID |-> ""]

\* a JSON value stored into a Go string field: null leaves it, a string sets it
StringFieldOK(j) == j.k \in {"null", "string"}
StringField(old, j) == IF j.k = "string" THEN j.v ELSE old
\* a Content field the decoder never sets
PtrFieldKeepsOld(old, j) == old
PtrField(old, j) == IF j.k = "string" THEN <<j.v>> ELSE IF j.k = "null" THEN <<>> ELSE old

Field(obj, name) == IF name \in DOMAIN obj.f THEN obj.f[name] ELSE JNull
Has(obj, name) == name \in DOMAIN obj.f

\* the decoder skips the white space before and after the JSON value
RECURSIVE TrimLeft(_)
TrimLeft(text) ==
    IF text # <<>> /\ Head(text) = " " THEN TrimLeft(Tail(text)) ELSE text

RECURSIVE TrimRight(_)
TrimRight(text) ==
    IF text # <<>> /\ text[Len(text)] = " "
    THEN TrimRight(SubSeq(text, 1, Len(text) - 1))
    ELSE text

\* json.Unmarshal([]byte(after), &event) on a zero event
Unmarshal(after) ==
    IF Len(TrimRight(TrimLeft(after))) # 1 THEN [ok |-> FALSE, event |-> ZeroEvent]
    ELSE LET j == JSONParse(TrimLeft(after)[1]) IN
         CASE j.k = "invalid" -> [ok |-> FALSE, event |-> ZeroEvent]
           [] j.k = "null" -> [ok |-> TRUE, event |-> ZeroEvent]
           [] j.k = "object" ->
                [ok |-> /\ StringFieldOK(Field(j, "type"))
                        /\ StringFieldOK(Field(j, "content"))
                        /\ StringFieldOK(Field(j, "chat_id")),
                 event |-> [Type |-> StringField("", Field(j, "type")),
                            Content |-> IF Has(j, "content")
                                        THEN PtrField(<<>>, Field(j, "content"))
                                        ELSE <<>>,
                            ChatID |-> StringField("", Field(j, "chat_id"))]]
           [] OTHER -> [ok |-> FALSE, event |-> ZeroEvent]

\* strings.HasPrefix(line, prefix)
HasPrefix(line, prefix) ==
    Len(line) >= Len(prefix) /\ SubSeq(line, 1, Len(prefix)) = prefix

\* a cut that does not ask for the last character of the prefix
CutPrefixLenient(line, prefix) ==
    LET short == SubSeq(prefix, 1, Len(prefix) - 1) IN
    IF HasPrefix(line, short)
    THEN [after |-> SubSeq(line, Len(short) + 1, Len(line)), ok |-> TRUE]
    ELSE [after |-> line, ok |-> FALSE]

\* strings.CutPrefix(line, prefix)
CutPrefix(line, prefix) ==
    IF HasPrefix(line, prefix)
    THEN [after |-> SubSeq(line, Len(prefix) + 1, Len(line)), ok |-> TRUE]
    ELSE [after |-> line, ok |-> FALSE]

\* a loop body without the `continue` after a failed json.Unmarshal
DecodeLineKeepsBad(line) ==
    IF line = <<>> \/ HasPrefix(line, <<":">>) THEN [emit |-> FALSE, event |-> ZeroEvent]
    ELSE LET cut == CutPrefix(line, DataPrefix) IN
         IF ~cut.ok THEN [emit |-> FALSE, event |-> ZeroEvent]
         ELSE [emit |-> TRUE, event |-> Unmarshal(cut.after).event]

\* a loop body that reports a keep-alive line as an event
DecodeLinePingEvent(line) ==
    IF line = <<>> THEN [emit |-> FALSE, event |-> ZeroEvent]
    ELSE IF HasPrefix(line, <<":">>) THEN [emit |-> TRUE, event |-> ZeroEvent]
    ELSE LET cut == CutPrefix(line, DataPrefix) IN
         IF ~cut.ok THEN [emit |-> FALSE, event |-> ZeroEvent]
         ELSE LET u == Unmarshal(cut.after) IN
              IF u.ok THEN [emit |-> TRUE, event |-> u.event]
              ELSE [emit |-> FALSE, event |-> ZeroEvent]

\* one pass of the scanner loop's body over a line: the event it publishes, if any
DecodeLine(line) ==
    IF line = <<>> \/ HasPrefix(line, <<":">>) THEN [emit |-> FALSE, event |-> ZeroEvent]
    ELSE LET cut == CutPrefix(line, DataPrefix) IN
         IF ~cut.ok THEN [emit |-> FALSE, event |-> ZeroEvent]
         ELSE LET u == Unmarshal(cut.after) IN
              IF u.ok THEN [emit |-> TRUE, event |-> u.event]
              ELSE [emit |-> FALSE, event |-> ZeroEvent]

\* ------------------------------------------------------------- references

\* the citation numbers and the reference records of a references payload
RefKeys == {"1", "2", "10"}

RefRecords ==
    {JObj([memo_uuid |-> JStr(u), memo_title |-> JStr(t)]) :
        u \in {"u", ""}, t \in {"t", ""}}

\* the references payloads: every mapping from citation numbers to a record with
\* memo_uuid and memo_title
RefMappings == {JObj(f) : f \in UNION {[S -> RefRecords] : S \in SUBSET RefKeys}}

\* payloads of other shapes: null, a string, and mappings to null, to a record
\* without title, with one more member, with a number for memo_uuid, to a string
RefOddities ==
    {JNull, JStr("x")} \cup
    {JObj([k \in {"1"} |-> v]) :
        v \in {JNull,
               JObj([memo_uuid |-> JStr("u")]),
               JObj([memo_uuid |-> JStr("u"), memo_title |-> JStr("t"), extra |-> JNum(1)]),
               JObj([memo_uuid |-> JNum(1), memo_title |-> JStr("t")]),
               JStr("x")}}

RefInputs == RefMappings \cup RefOddities

\* MemoReference{}
ZeroReference == [MemoUUID |-> "", MemoTitle |-> ""]

\* var r References: the nil map
NilReferences == [ok |-> TRUE, nil |-> TRUE, m |-> <<>>]

\* json.Unmarshal of a map element into a MemoReference: null leaves the zero value,
\* an object sets the tagged fields it has, anything else is a type error
UnmarshalReference(j) ==
    IF j.k = "null" THEN [ok |-> TRUE, val |-> ZeroReference]
    ELSE IF j.k = "object"
    THEN [ok |-> StringFieldOK(Field(j, "memo_uuid")) /\ StringFieldOK(Field(j, "memo_title")),
          val |-> [MemoUUID |-> IF StringFieldOK(Field(j, "memo_uuid"))
                                THEN StringField("", Field(j, "memo_uuid")) ELSE "",
                   MemoTitle |-> IF StringFieldOK(Field(j, "memo_title"))
                                 THEN StringField("", Field(j, "memo_title")) ELSE ""]]
    ELSE [ok |-> FALSE, val |-> ZeroReference]

\* json.Unmarshal into a References: null leaves the nil map, an object makes a map
\* with an entry for each member
UnmarshalReferences(j) ==
    IF j.k = "null" THEN NilReferences
    ELSE IF j.k = "object"
    THEN [ok |-> \A k \in DOMAIN j.f : UnmarshalReference(j.f[k]).ok,
          nil |-> FALSE,
          m |-> [k \in DOMAIN j.f |-> UnmarshalReference(j.f[k]).val]]
    ELSE [ok |-> FALSE, nil |-> TRUE, m |-> <<>>]

\* a MemoReference whose title is tagged omitempty
MarshalReferenceOmitEmpty(r) ==
    IF r.MemoTitle = "" THEN JObj([memo_uuid |-> JStr(r.MemoUUID)])
    ELSE JObj([memo_uuid |-> JStr(r.MemoUUID), memo_title |-> JStr(r.MemoTitle)])

\* json.Marshal of a MemoReference: both members, under their tags
MarshalReference(r) ==
    JObj([memo_uuid |-> JStr(r.MemoUUID), memo_title |-> JStr(r.MemoTitle)])

\* json.Marshal of a References: null for the nil map, else an object with a member
\* for each key
MarshalReferences(g) ==
    IF g.nil THEN JNull
    ELSE JObj([k \in DOMAIN g.m |-> MarshalReference(g.m[k])])

\* ------------------------------------------------------------ the request

\* the ChatParams a caller passes; a filter Value of NaN is a float json.Marshal rejects
GoodParams ==
    [Query |-> "q", Filters |-> <<[Field |-> "source", Value |-> "docs"]>>,
     SystemPrompt |-> "sp", ChatID |-> "c1", RAGConfig |-> <<"cfg">>]
BadParams ==
    [Query |-> "q", Filters |-> <<[Field |-> "source", Value |-> "NaN"]>>,
     SystemPrompt |-> "", ChatID |-> "", RAGConfig |-> <<>>]
ParamsSet == {GoodParams, BadParams}

\* chatReq := chatRequest{Query, Stream: true, SystemPrompt, Filters}
ChatRequestOf(p) ==
    [Query |-> p.Query, Stream |-> TRUE, SystemPrompt |-> p.SystemPrompt,
     Filters |-> p.Filters, ChatID |-> "", RAGConfig |-> <<>>]

\* a serializer that accepts every value
MarshalOKAlways(req) == TRUE

\* json.Marshal(chatReq) succeeds unless a filter holds an unsupported value
MarshalOK(req) == \A i \in 1..Len(req.Filters) : req.Filters[i].Value # "NaN"

\* the keys of the marshalled chatRequest: the omitempty fields appear only when set
MarshalKeys(req) ==
    {"query", "stream"}
        \cup (IF req.SystemPrompt # "" THEN {"system_prompt"} ELSE {})
        \cup (IF Len(req.Filters) > 0 THEN {"filters"} ELSE {})
        \cup (IF req.ChatID # "" THEN {"chat_id"} ELSE {})
        \cup (IF req.RAGConfig # <<>> THEN {"rag_config"} ELSE {})

Marshal(req) ==
    [key \in MarshalKeys(req) |->
        CASE key = "query" -> req.Query
          [] key = "stream" -> req.Stream
          [] key = "system_prompt" -> req.SystemPrompt
          [] key = "filters" -> req.Filters
          [] key = "chat_id" -> req.ChatID
          [] key = "rag_config" -> req.RAGConfig]

\* ------------------------------------------------------------------ errors

MarshalError == [kind |-> "marshal", code |-> 0, text |-> <<>>, cause |-> "unsupported"]
TransportError(cause) == [kind |-> "transport", code |-> 0, text |-> <<>>, cause |-> cause]
\* fmt.Errorf("skald API error (%d): %s", resp.StatusCode, string(bodyBytes))
StatusError(code, text) == [kind |-> "status", code |-> code, text |-> text, cause |-> "api"]
\* fmt.Errorf("error reading stream: %w", err)
ReadError(cause) == [kind |-> "read", code |-> 0, text |-> <<>>, cause |-> cause]

\* the failures a transport operation may report: an I/O failure at any time, the
\* context's error once the context is cancelled
Causes(isCancelled) == IF isCancelled THEN {"io", "canceled"} ELSE {"io"}

\* ------------------------------------------------------------------ client

\* a URL is the sequence of its parts, every '/' at its end a part of its own
DefaultURL == <<"https://api.useskald.com">>
CustomURL == <<"https://custom.api.com">>

\* the baseURL arguments NewClient is called with: none, the empty string, a URL,
\* the URL with one or two slashes at its end
BaseURLArgs ==
    {<<>>, <<<<>>>>, <<CustomURL>>, <<CustomURL \o <<"/">>>>,
     <<CustomURL \o <<"/", "/">>>>}

APIKeys == {"test-key", "test-api-key"}

\* strings.TrimRight(s, cutset)
RECURSIVE TrimRightCutset(_, _)
TrimRightCutset(s, cutset) ==
    IF s # <<>> /\ s[Len(s)] \in cutset
    THEN TrimRightCutset(SubSeq(s, 1, Len(s) - 1), cutset)
    ELSE s

\* NewClient(apiKey, baseURL...)
NewClient(apiKey, baseURL) ==
    LET url == IF Len(baseURL) > 0 /\ baseURL[1] # <<>>
               THEN TrimRightCutset(baseURL[1], {"/"})
               ELSE DefaultURL
    IN [apiKey |-> apiKey, baseURL |-> url, httpClient |-> "&http.Client{}"]

\* the clients NewClient returns
Clients == {NewClient(k, b) : k \in APIKeys, b \in BaseURLArgs}

\* the memo, search and chat operations: each builds one request and hands it to
\* c.httpClient.Do
Operations ==
    {[name |-> "CreateMemo", method |-> "POST", path |-> <<"/api/v1/memo">>],
     [name |-> "CreateMemoFromFile", method |-> "POST", path |-> <<"/api/v1/memo/upload">>],
     [name |-> "GetMemo", method |-> "GET", path |-> <<"/api/v1/memo/", "id">>],
     [name |-> "ListMemos", method |-> "GET", path |-> <<"/api/v1/memo">>],
     [name |-> "UpdateMemo", method |-> "PATCH", path |-> <<"/api/v1/memo/", "id">>],
     [name |-> "DeleteMemo", method |-> "DELETE", path |-> <<"/api/v1/memo/", "id">>],
     [name |-> "CheckMemoStatus", method |-> "GET", path |-> <<"/api/v1/memo/", "id", "/status">>],
     [name |-> "Search", method |-> "POST", path |-> <<"/api/v1/search">>],
     [name |-> "Chat", method |-> "POST", path |-> <<"/api/v1/chat">>]}

\* ------------------------------------------------------------------- state

VARIABLES
    pc,          \* where the goroutine of StreamedChat is
    params,      \* the ChatParams of the call
    reqs,        \* the HTTP requests handed to httpClient.Do
    status,      \* resp.StatusCode (NoStatus: no response)
    body,        \* the lines of resp.Body
    pos,         \* the lines read from resp.Body
    cur,         \* the event being sent on eventChan (<<>>: none)
    pendErr,     \* the error being sent on errChan (<<>>: none)
    errChan,     \* the buffer of errChan
    errClosed,   \* the times errChan was closed
    evtClosed,   \* the times eventChan was closed
    bodyClosed,  \* the times resp.Body.Close was called
    ending,      \* the return the goroutine took
    received,    \* the events the caller received from eventChan
    gotErr,      \* the errors the caller received from errChan
    consumer,    \* what the caller is doing
    wasStalled,  \* a read of a 2xx body has blocked
    cancelled,   \* ctx is cancelled
    client,      \* the fields of the Client every call goes through
    lastReq,     \* the request of the last memo, search or chat call (<<>>: none)
    calls,       \* the StreamedChat calls that run side by side, by call
    evtChans,    \* the times each of their event channels was closed
    errChans,    \* the buffers and the closes of their error channels
    refs,        \* a references payload, decoded and encoded again
    opResult     \* what the last memo operation was given, sent and returned

\* the state outside the one call followed step by step
outside == <<client, lastReq, calls, evtChans, errChans, refs, opResult>>

\* the state of the one call followed step by step
oneCall == <<pc, params, reqs, status, body, pos, cur, pendErr, errChan, errClosed,
             evtClosed, bodyClosed, ending, received, gotErr, consumer, wasStalled,
             cancelled>>

vars == <<pc, params, reqs, status, body, pos, cur, pendErr, errChan, errClosed,
          evtClosed, bodyClosed, ending, received, gotErr, consumer, wasStalled,
          cancelled, outside>>

\* the two calls that run side by side
CallIds == {1, 2}

\* a call of StreamedChat before its first step
NewCall ==
    [pc |-> "idle", params |-> GoodParams, status |-> NoStatus, body |-> <<>>,
     pos |-> 0, cur |-> <<>>, pendErr |-> <<>>, ending |-> "none", bodyClosed |-> 0,
     received |-> <<>>, gotErr |-> <<>>, consumer |-> "recv"]

\* the client c was made by NewClient and no call has started
InitOutside(c) ==
    /\ client = c
    /\ lastReq = <<>>
    /\ calls = [i \in CallIds |-> NewCall]
    /\ evtChans = [ch \in CallIds |-> 0]
    /\ errChans = [ch \in CallIds |-> [buf |-> <<>>, closed |-> 0]]
    /\ refs = [stage |-> "none", in |-> JNull, val |-> NilReferences, out |-> JInvalid]
    /\ opResult = <<>>

InitCall ==
    /\ pc = "idle"
    /\ params = GoodParams
    /\ reqs = <<>>
    /\ status = NoStatus
    /\ body = <<>>
    /\ pos = 0
    /\ cur = <<>>
    /\ pendErr = <<>>
    /\ errChan = <<>>
    /\ errClosed = 0
    /\ evtClosed = 0
    /\ bodyClosed = 0
    /\ ending = "none"
    /\ received = <<>>
    /\ gotErr = <<>>
    /\ consumer = "recv"
    /\ wasStalled = FALSE
    /\ cancelled = FALSE

\* client := NewClient("test-api-key")
Init == InitCall /\ InitOutside(NewClient("test-api-key", <<>>))

\* the client is any client NewClient returns
ClientInit == InitCall /\ \E c \in Clients : InitOutside(c)

\* ------------------------------------------------- the producer goroutine

\* StreamedChat: the channels are made, the goroutine is started
StreamedChat(p) ==
    /\ pc = "idle"
    /\ params' = p
    /\ pc' = "marshal"
    /\ UNCHANGED <<reqs, status, body, pos, cur, pendErr, errChan, errClosed, evtClosed,
                   bodyClosed, ending, received, gotErr, consumer, cancelled,
                   wasStalled, outside>>

\* a goroutine that does not defer resp.Body.Close()
FirstDeferredNoBody(st) == "closeErr"

\* the deferred calls run last registered first: resp.Body.Close() when a response
\* was obtained, then close(errChan), then close(eventChan)
FirstDeferred(st) == IF st # NoStatus THEN "closeBody" ELSE "closeErr"

\* body, err := json.Marshal(chatReq)
MarshalReq ==
    /\ pc = "marshal"
    /\ IF MarshalOK(ChatRequestOf(params))
       THEN /\ pc' = "request"
            /\ UNCHANGED <<pendErr, ending>>
       ELSE /\ pendErr' = <<MarshalError>>
            /\ ending' = "marshal"
            /\ pc' = "sendErr"
    /\ UNCHANGED <<params, reqs, status, body, pos, cur, errChan, errClosed, evtClosed,
                   bodyClosed, received, gotErr, consumer, cancelled,
                   wasStalled, outside>>

\* the request doRequest builds and hands to c.httpClient.Do
RequestOf(p) ==
    [method |-> "POST", path |-> "/api/v1/chat",
     url |-> client.baseURL \o <<"/api/v1/chat">>,
     auth |-> <<"Bearer ", client.apiKey>>,
     body |-> Marshal(ChatRequestOf(p))]

\* a doRequest that tries once more after a transport failure
DoRequestFromRetries(bodies) ==
    /\ pc = "request"
    /\ \/ \E cause \in Causes(cancelled) :
            /\ reqs' = reqs \o <<RequestOf(params), RequestOf(params)>>
            /\ pendErr' = <<TransportError(cause)>>
            /\ ending' = "transport"
            /\ pc' = "sendErr"
            /\ UNCHANGED <<status, body>>
       \/ \E st \in StatusCodes, b \in bodies :
            /\ reqs' = Append(reqs, RequestOf(params))
            /\ status' = st
            /\ body' = b
            /\ pc' = "check"
            /\ UNCHANGED <<pendErr, ending>>
    /\ UNCHANGED <<params, pos, cur, errChan, errClosed, evtClosed, bodyClosed,
                   received, gotErr, consumer, cancelled,
                   wasStalled, outside>>

\* resp, err := c.doRequest(ctx, "POST", "/api/v1/chat", nil, body): the transport
\* fails, or answers with a status and a body
DoRequestFrom(bodies) ==
    /\ pc = "request"
    /\ reqs' = Append(reqs, RequestOf(params))
    /\ \/ \E cause \in Causes(cancelled) :
            /\ pendErr' = <<TransportError(cause)>>
            /\ ending' = "transport"
            /\ pc' = "sendErr"
            /\ UNCHANGED <<status, body>>
       \/ \E st \in StatusCodes, b \in bodies :
            /\ status' = st
            /\ body' = b
            /\ pc' = "check"
            /\ UNCHANGED <<pendErr, ending>>
    /\ UNCHANGED <<params, pos, cur, errChan, errClosed, evtClosed, bodyClosed,
                   received, gotErr, consumer, cancelled,
                   wasStalled, outside>>

DoRequest == DoRequestFrom(Bodies)

DoRequestLive == DoRequestFrom(LiveBodies)

DoRequestShape == DoRequestFrom(ShapeBodies)

DoRequestFraming == DoRequestFrom(FramingBodies)

DoRequestLong == DoRequestFrom(LongBodies)

\* the range check with its upper edge let in
Is2xxInclusive(code) == code >= 200 /\ code <= 300

\* resp.StatusCode >= 200 && resp.StatusCode < 300
Is2xx(code) == code >= 200 /\ code < 300

\* checkResponse: nil for a 2xx status, else the body is read to its end and folded
\* with the status code into the error
CheckResponse ==
    /\ pc = "check"
    /\ IF Is2xx(status)
       THEN /\ pc' = "scan"
            /\ UNCHANGED <<pos, pendErr, ending>>
       ELSE \/ /\ pos' = Len(body)
               /\ pendErr' = <<StatusError(status, body)>>
               /\ ending' = "status"
               /\ pc' = "sendErr"
            \/ /\ pos' = Len(body)
               /\ pc' = "readAllStalled"
               /\ UNCHANGED <<pendErr, ending>>
    /\ UNCHANGED <<params, reqs, status, body, cur, errChan, errClosed, evtClosed,
                   bodyClosed, received, gotErr, consumer, cancelled,
                   wasStalled, outside>>

\* io.ReadAll on an error body that stalls returns when the context is cancelled;
\* its error is dropped and what was read is kept
ReadAllCancelled ==
    /\ pc = "readAllStalled"
    /\ cancelled
    /\ pendErr' = <<StatusError(status, body)>>
    /\ ending' = "status"
    /\ pc' = "sendErr"
    /\ UNCHANGED <<params, reqs, status, body, pos, cur, errChan, errClosed, evtClosed,
                   bodyClosed, received, gotErr, consumer, cancelled,
                   wasStalled, outside>>

\* a reader that forwards only the kinds it knows
PublishesKnownKinds(d) == d.emit /\ d.event.Type \in {"token", "done", "references"}

\* eventChan <- event: every event json.Unmarshal accepted is sent, whatever its Type
Publishes(d) == d.emit

\* a reader that scans on while an event waits to be received, queueing the events
ScanLineBuffered ==
    /\ pc \in {"scan", "send"}
    /\ pos < Len(body)
    /\ pos' = pos + 1
    /\ LET d == DecodeLine(body[pos + 1]) IN
         IF Publishes(d)
         THEN /\ cur' = Append(cur, d.event)
              /\ pc' = "send"
         ELSE /\ pc' = pc
              /\ UNCHANGED cur
    /\ UNCHANGED <<params, reqs, status, body, pendErr, errChan, errClosed, evtClosed,
                   bodyClosed, ending, received, gotErr, consumer, cancelled,
                   wasStalled, outside>>

\* scanner.Scan() returns a line: it is skipped, or decoded into the event to send;
\* or it returns false on a line too long for its buffer, and scanner.Err() is
\* wrapped and returned
ScanLine ==
    /\ pc = "scan"
    /\ pos < Len(body)
    /\ IF TooLong(body[pos + 1])
       THEN /\ pendErr' = <<ReadError("token too long")>>
            /\ ending' = "read"
            /\ pc' = "sendErr"
            /\ UNCHANGED <<pos, cur>>
       ELSE /\ pos' = pos + 1
            /\ LET d == DecodeLine(body[pos + 1]) IN
                 IF Publishes(d)
                 THEN /\ cur' = <<d.event>>
                      /\ pc' = "send"
                 ELSE /\ pc' = "scan"
                      /\ UNCHANGED cur
            /\ UNCHANGED <<pendErr, ending>>
    /\ UNCHANGED <<params, reqs, status, body, errChan, errClosed, evtClosed,
                   bodyClosed, received, gotErr, consumer, cancelled,
                   wasStalled, outside>>

\* a reader that reports the end of the body as a failure
ScanEOFStrict ==
    /\ pc = "scan"
    /\ pos = Len(body)
    /\ ending' = "eof"
    /\ pendErr' = <<[kind |-> "read", code |-> 0, text |-> <<>>, cause |-> "eof"]>>
    /\ pc' = "sendErr"
    /\ UNCHANGED <<params, reqs, status, body, pos, cur, errChan, errClosed,
                   evtClosed, bodyClosed, received, gotErr, consumer, cancelled,
                   wasStalled, outside>>

\* scanner.Scan() returns false at the end of the body and scanner.Err() is nil
ScanEOF ==
    /\ pc = "scan"
    /\ pos = Len(body)
    /\ ending' = "eof"
    /\ pc' = FirstDeferred(status)
    /\ UNCHANGED <<params, reqs, status, body, pos, cur, pendErr, errChan, errClosed,
                   evtClosed, bodyClosed, received, gotErr, consumer, cancelled,
                   wasStalled, outside>>

\* a reader that does not look at scanner.Err() and returns nil
ReadFailedSwallowed(cause) ==
    /\ ending' = "eof"
    /\ pc' = FirstDeferred(status)
    /\ UNCHANGED pendErr

\* return fmt.Errorf("error reading stream: %w", err)
ReadFailed(cause) ==
    /\ pendErr' = <<ReadError(cause)>>
    /\ ending' = "read"
    /\ pc' = "sendErr"

\* scanner.Scan() returns false because reading the body failed
ScanFail ==
    /\ pc = "scan"
    /\ \E cause \in Causes(cancelled) : ReadFailed(cause)
    /\ UNCHANGED <<params, reqs, status, body, pos, cur, errChan, errClosed, evtClosed,
                   bodyClosed, received, gotErr, consumer, cancelled,
                   wasStalled, outside>>

\* the body has no more bytes for now: the read inside scanner.Scan() blocks
ScanStall ==
    /\ pc = "scan"
    /\ pos = Len(body)
    /\ pc' = "stalled"
    /\ wasStalled' = TRUE
    /\ UNCHANGED <<params, reqs, status, body, pos, cur, pendErr, errChan, errClosed,
                   evtClosed, bodyClosed, ending, received, gotErr, consumer, cancelled,
                   outside>>

\* the request carries ctx (http.NewRequestWithContext): a blocked body read fails
\* with the context's error once ctx is cancelled
StallCancelled ==
    /\ pc = "stalled"
    /\ cancelled
    /\ ReadFailed("canceled")
    /\ UNCHANGED <<params, reqs, status, body, pos, cur, errChan, errClosed, evtClosed,
                   bodyClosed, received, gotErr, consumer, cancelled,
                   wasStalled, outside>>

\* a reader that does not stop on 'done'
AfterSendScansOn(event) == "scan"

\* after eventChan <- event: a 'done' event returns nil, any other scans on
AfterSend(event) == IF event.Type = "done" THEN "return" ELSE "scan"

\* eventChan <- event meets the caller's receive (the channel is unbuffered)
Recv ==
    /\ pc = "send"
    /\ consumer = "recv"
    /\ received' = Append(received, cur[1])
    /\ cur' = <<>>
    /\ IF AfterSend(cur[1]) = "return"
       THEN /\ ending' = "done"
            /\ pc' = FirstDeferred(status)
       ELSE /\ pc' = "scan"
            /\ UNCHANGED ending
    /\ UNCHANGED <<params, reqs, status, body, pos, pendErr, errChan, errClosed,
                   evtClosed, bodyClosed, gotErr, consumer, cancelled,
                   wasStalled, outside>>

\* an error channel made without a buffer, with nobody receiving from it
ErrChanNoBuffer(buf) == Len(buf) < 0

\* errChan := make(chan error, 1): a send goes through while the buffer has room
ErrChanHasRoom(buf) == Len(buf) < ErrChanCap

\* a failure path that returns without sending its error
SendErrDropped ==
    /\ pc = "sendErr"
    /\ pendErr' = <<>>
    /\ pc' = FirstDeferred(status)
    /\ UNCHANGED <<params, reqs, status, body, pos, cur, errChan, errClosed, evtClosed,
                   bodyClosed, ending, received, gotErr, consumer, cancelled,
                   wasStalled, outside>>

\* errChan <- err; return
SendErr ==
    /\ pc = "sendErr"
    /\ ErrChanHasRoom(errChan)
    /\ errChan' = errChan \o pendErr
    /\ pendErr' = <<>>
    /\ pc' = FirstDeferred(status)
    /\ UNCHANGED <<params, reqs, status, body, pos, cur, errClosed, evtClosed,
                   bodyClosed, ending, received, gotErr, consumer, cancelled,
                   wasStalled, outside>>

\* defer func() { _ = resp.Body.Close() }()
CloseBody ==
    /\ pc = "closeBody"
    /\ bodyClosed' = bodyClosed + 1
    /\ pc' = "closeErr"
    /\ UNCHANGED <<params, reqs, status, body, pos, cur, pendErr, errChan, errClosed,
                   evtClosed, ending, received, gotErr, consumer, cancelled,
                   wasStalled, outside>>

\* a goroutine that does not close errChan
CloseErrChanSkipped ==
    /\ pc = "closeErr"
    /\ pc' = "closeEvt"
    /\ UNCHANGED <<params, reqs, status, body, pos, cur, pendErr, errChan, errClosed,
                   evtClosed, bodyClosed, ending, received, gotErr, consumer, cancelled,
                   wasStalled, outside>>

\* defer close(errChan)
CloseErrChan ==
    /\ pc = "closeErr"
    /\ errClosed' = errClosed + 1
    /\ pc' = "closeEvt"
    /\ UNCHANGED <<params, reqs, status, body, pos, cur, pendErr, errChan, evtClosed,
                   bodyClosed, ending, received, gotErr, consumer, cancelled,
                   wasStalled, outside>>

\* defer close(eventChan)
CloseEventChan ==
    /\ pc = "closeEvt"
    /\ evtClosed' = evtClosed + 1
    /\ pc' = "done"
    /\ UNCHANGED <<params, reqs, status, body, pos, cur, pendErr, errChan, errClosed,
                   bodyClosed, ending, received, gotErr, consumer, cancelled,
                   wasStalled, outside>>

\* ------------------------------------------------------------- the caller

\* for event := range eventChan ends when the channel is closed
RecvClosed ==
    /\ consumer = "recv"
    /\ evtClosed > 0
    /\ consumer' = "checkErr"
    /\ UNCHANGED <<pc, params, reqs, status, body, pos, cur, pendErr, errChan, errClosed,
                   evtClosed, bodyClosed, ending, received, gotErr, cancelled,
                   wasStalled, outside>>

\* select { case err := <-errChan: ... default: }
CheckErr ==
    /\ consumer = "checkErr"
    /\ IF errChan # <<>>
       THEN /\ gotErr' = Append(gotErr, Head(errChan))
            /\ errChan' = Tail(errChan)
       ELSE UNCHANGED <<gotErr, errChan>>
    /\ consumer' = "finished"
    /\ UNCHANGED <<pc, params, reqs, status, body, pos, cur, pendErr, errClosed,
                   evtClosed, bodyClosed, ending, received, cancelled,
                   wasStalled, outside>>

\* the caller abandons the stream: it receives from eventChan no more
Stop ==
    /\ consumer = "recv"
    /\ consumer' = "stopped"
    /\ UNCHANGED <<pc, params, reqs, status, body, pos, cur, pendErr, errChan, errClosed,
                   evtClosed, bodyClosed, ending, received, gotErr, cancelled,
                   wasStalled, outside>>

\* the caller cancels ctx
Cancel ==
    /\ ~cancelled
    /\ cancelled' = TRUE
    /\ UNCHANGED <<pc, params, reqs, status, body, pos, cur, pendErr, errChan, errClosed,
                   evtClosed, bodyClosed, ending, received, gotErr, consumer,
                   wasStalled, outside>>

\* ------------------------------------------------- the other operations

\* an operation that keeps the URL it built in the client
OperationKeepsURL(op) ==
    /\ lastReq' = <<[method |-> op.method, path |-> op.path,
                     url |-> client.baseURL \o op.path,
                     auth |-> <<"Bearer ", client.apiKey>>]>>
    /\ client' = [client EXCEPT !.baseURL = client.baseURL \o op.path]
    /\ UNCHANGED <<oneCall, calls, evtChans, errChans, refs, opResult>>

\* a memo, search or chat call: urlStr := c.baseURL + path, the Authorization header
\* is "Bearer " + c.apiKey, the request goes to c.httpClient.Do; the client is read only
Operation(op) ==
    /\ lastReq' = <<[method |-> op.method, path |-> op.path,
                     url |-> client.baseURL \o op.path,
                     auth |-> <<"Bearer ", client.apiKey>>]>>
    /\ client' = client
    /\ UNCHANGED <<oneCall, calls, evtChans, errChans, refs, opResult>>

\* the bodies of the streamed call that runs among the other operations
ClientBodies == {<<>>, <<LTokA, LDone>>}

DoRequestClient == DoRequestFrom(ClientBodies)

\* ------------------------------------------------- the memo operations

\* the operations that take a memo id and an optional idType
IDOperations ==
    {[name |-> "GetMemo", method |-> "GET", suffix |-> <<>>,
      marshals |-> FALSE, decodes |-> TRUE],
     [name |-> "UpdateMemo", method |-> "PATCH", suffix |-> <<>>,
      marshals |-> TRUE, decodes |-> TRUE],
     [name |-> "DeleteMemo", method |-> "DELETE", suffix |-> <<>>,
      marshals |-> FALSE, decodes |-> FALSE],
     [name |-> "CheckMemoStatus", method |-> "GET", suffix |-> <<"/status">>,
      marshals |-> FALSE, decodes |-> TRUE]}

\* the idType arguments: none, the two IDType constants, other strings
IDTypeArgs == {<<>>, <<"memo_uuid">>, <<"reference_id">>, <<"invalid">>, <<"">>}

MemoIDs == {"test-id", "a/b"}

\* url.PathEscape(memoID)
PathEscape(id) == IF id = "a/b" THEN "a%2Fb" ELSE id

\* a check that lets every idType through
ValidIDTypeAny(t) == TRUE

\* idTypeValue == IDTypeMemoUUID || idTypeValue == IDTypeReferenceID
ValidIDType(t) == t = "memo_uuid" \/ t = "reference_id"

\* the bodies of a response: a JSON object with the memo's uuid, and no JSON
MemoUUID == "123e4567-e89b-12d3-a456-426614174000"
RespMemo == "{\"memo_uuid\": \"123e4567-e89b-12d3-a456-426614174000\"}"
RespGarbage == "not json"
RespBodies == {RespMemo, RespGarbage}

\* what an operation returns once its request is built: c.httpClient.Do fails, or
\* checkResponse rejects the status, or the body does not decode, or the value
Exchange(decodes, value) ==
    {[resp |-> <<>>, err |-> "transport", value |-> ""]}
    \cup {[resp |-> <<[status |-> st, body |-> b]>>,
           err |-> IF ~Is2xx(st) THEN "skald API error"
                   ELSE IF decodes /\ b = RespGarbage THEN "failed to decode response"
                   ELSE "",
           value |-> IF Is2xx(st) /\ decodes /\ b = RespMemo THEN value ELSE ""] :
          st \in StatusCodes, b \in RespBodies}

\* the state left alone by a memo operation
opFrame == <<oneCall, lastReq, calls, evtChans, errChans, refs>>

\* GetMemo, UpdateMemo, DeleteMemo, CheckMemoStatus
IDOperation(op, memoID, idType, data) ==
    LET idTypeValue == IF Len(idType) > 0 THEN idType[1] ELSE "memo_uuid"
        path == <<"/api/v1/memo/", PathEscape(memoID)>> \o op.suffix
        req == [method |-> op.method, path |-> path,
                url |-> client.baseURL \o path,
                query |-> IF idTypeValue # "memo_uuid"
                          THEN [id_type |-> idTypeValue] ELSE <<>>,
                auth |-> <<"Bearer ", client.apiKey>>,
                contentType |-> IF op.marshals THEN <<"application/json">> ELSE <<>>]
        call == [name |-> op.name, memoID |-> memoID, idType |-> idType, file |-> <<>>]
    IN
    /\ IF Len(idType) > 0 /\ ~ValidIDType(idTypeValue)
       THEN opResult' = <<[call |-> call, sent |-> <<>>, resp |-> <<>>,
                           err |-> "invalid idType", value |-> ""]>>
       ELSE IF op.marshals /\ data = "unsupported"
       THEN opResult' = <<[call |-> call, sent |-> <<>>, resp |-> <<>>,
                           err |-> "failed to marshal update data", value |-> ""]>>
       ELSE \E out \in Exchange(op.decodes, "decoded") :
               opResult' = <<[call |-> call, sent |-> <<req>>, resp |-> out.resp,
                              err |-> out.err, value |-> out.value]>>
    /\ client' = client
    /\ UNCHANGED opFrame

\* const maxFileSize = 100 * 1024 * 1024
MaxFileSize == 100 * 1024 * 1024

\* the files CreateMemoFromFile is given: a path with no file, and files of sizes
\* about the limit that can or cannot be read to their end
FileSizes == {0, 16, MaxFileSize - 1, MaxFileSize, MaxFileSize + 1, 101 * 1024 * 1024}

Files ==
    {[exists |-> FALSE, size |-> 0, readable |-> FALSE]}
    \cup {[exists |-> TRUE, size |-> n, readable |-> rd] :
            n \in FileSizes, rd \in BOOLEAN}

\* the memoData argument: nil, data json.Marshal takes, data it rejects
MemoDataArgs == {"nil", "ok", "unsupported"}

\* a check that rejects the file of exactly the limit too
ExceedsLimitInclusive(size) == size >= MaxFileSize

\* fileInfo.Size() > maxFileSize
ExceedsLimit(size) == size > MaxFileSize

\* CreateMemoFromFile
CreateMemoFromFile(file, memoData) ==
    LET path == <<"/api/v1/memo/upload">>
        req == [method |-> "POST", path |-> path,
                url |-> client.baseURL \o path,
                query |-> <<>>,
                auth |-> <<"Bearer ", client.apiKey>>,
                contentType |-> <<"multipart/form-data", "; boundary=", "b">>]
        call == [name |-> "CreateMemoFromFile", memoID |-> "", idType |-> <<>>,
                 file |-> <<file>>]
        fails(text) == [call |-> call, sent |-> <<>>, resp |-> <<>>,
                        err |-> text, value |-> ""]
    IN
    /\ IF ~file.exists
       THEN opResult' = <<fails("failed to open file")>>
       ELSE IF ExceedsLimit(file.size)
       THEN opResult' = <<fails("file size exceeds 100MB limit")>>
       ELSE IF ~file.readable
       THEN opResult' = <<fails("failed to copy file content")>>
       ELSE IF memoData = "unsupported"
       THEN opResult' = <<fails("failed to marshal memo data")>>
       ELSE \E out \in Exchange(TRUE, MemoUUID) :
               opResult' = <<[call |-> call, sent |-> <<req>>, resp |-> out.resp,
                              err |-> out.err, value |-> out.value]>>
    /\ client' = client
    /\ UNCHANGED opFrame

\* ------------------------------------------- references, there and back

\* the state left alone by a step on a references payload
refsFrame == <<oneCall, client, lastReq, calls, evtChans, errChans, opResult>>

\* json.Unmarshal(payload, &references)
DecodeRefs ==
    /\ refs.stage = "input"
    /\ refs' = [refs EXCEPT !.stage = "decoded", !.val = UnmarshalReferences(refs.in)]
    /\ UNCHANGED refsFrame

\* json.Marshal(references), when the decoding returned no error
EncodeRefs ==
    /\ refs.stage = "decoded"
    /\ refs.val.ok
    /\ refs' = [refs EXCEPT !.stage = "encoded", !.out = MarshalReferences(refs.val)]
    /\ UNCHANGED refsFrame

\* ------------------------------------------------- two calls side by side

\* the lines the server answers a call with
PairLines(i) == IF i = 1 THEN {LTokA, LDone} ELSE {LTokB, LDone}

PairBodies(i) == SeqsUpTo(PairLines(i), MaxPairLines)

PairStatus == {200, 404}

\* calls that send their events on one channel kept by the client
EvtChanShared(i) == 1

\* eventChan := make(chan ChatStreamEvent): every call makes its own event channel
EvtChanOf(i) == i

\* errChan := make(chan error, 1): every call makes its own error channel
ErrChanOf(i) == i

\* the state left alone by a step of one of the two calls
pairFrame == <<oneCall, client, lastReq, refs, opResult>>

\* StreamedChat: the channels are made, the goroutine is started
StreamedChatIn(i) ==
    /\ calls[i].pc = "idle"
    /\ \E p \in ParamsSet :
          calls' = [calls EXCEPT ![i] = [@ EXCEPT !.params = p, !.pc = "marshal"]]
    /\ UNCHANGED <<pairFrame, evtChans, errChans>>

\* body, err := json.Marshal(chatReq)
MarshalReqIn(i) ==
    /\ calls[i].pc = "marshal"
    /\ calls' = [calls EXCEPT ![i] =
          IF MarshalOK(ChatRequestOf(@.params))
          THEN [@ EXCEPT !.pc = "request"]
          ELSE [@ EXCEPT !.pendErr = <<MarshalError>>, !.ending = "marshal",
                         !.pc = "sendErr"]]
    /\ UNCHANGED <<pairFrame, evtChans, errChans>>

\* resp, err := c.doRequest(ctx, "POST", "/api/v1/chat", nil, body): the transport
\* fails, or the ctx of the call is cancelled meanwhile, or the server answers
DoRequestIn(i) ==
    /\ calls[i].pc = "request"
    /\ \/ \E cause \in Causes(TRUE) :
            calls' = [calls EXCEPT ![i] =
                [@ EXCEPT !.pendErr = <<TransportError(cause)>>,
                          !.ending = "transport", !.pc = "sendErr"]]
       \/ \E st \in PairStatus, b \in PairBodies(i) :
            calls' = [calls EXCEPT ![i] =
                [@ EXCEPT !.status = st, !.body = b, !.pc = "check"]]
    /\ UNCHANGED <<pairFrame, evtChans, errChans>>

\* checkResponse
CheckResponseIn(i) ==
    /\ calls[i].pc = "check"
    /\ calls' = [calls EXCEPT ![i] =
          IF Is2xx(@.status)
          THEN [@ EXCEPT !.pc = "scan"]
          ELSE [@ EXCEPT !.pos = Len(calls[i].body),
                         !.pendErr = <<StatusError(calls[i].status, calls[i].body)>>,
                         !.ending = "status", !.pc = "sendErr"]]
    /\ UNCHANGED <<pairFrame, evtChans, errChans>>

\* scanner.Scan() returns a line
ScanLineIn(i) ==
    /\ calls[i].pc = "scan"
    /\ calls[i].pos < Len(calls[i].body)
    /\ LET line == calls[i].body[calls[i].pos + 1]
           d == DecodeLine(line)
       IN calls' = [calls EXCEPT ![i] =
             IF TooLong(line)
             THEN [@ EXCEPT !.pendErr = <<ReadError("token too long")>>,
                            !.ending = "read", !.pc = "sendErr"]
             ELSE IF Publishes(d)
             THEN [@ EXCEPT !.pos = @ + 1, !.cur = <<d.event>>, !.pc = "send"]
             ELSE [@ EXCEPT !.pos = @ + 1]]
    /\ UNCHANGED <<pairFrame, evtChans, errChans>>

\* scanner.Scan() returns false at the end of the body
ScanEOFIn(i) ==
    /\ calls[i].pc = "scan"
    /\ calls[i].pos = Len(calls[i].body)
    /\ calls' = [calls EXCEPT ![i] =
          [@ EXCEPT !.ending = "eof", !.pc = FirstDeferred(calls[i].status)]]
    /\ UNCHANGED <<pairFrame, evtChans, errChans>>

\* scanner.Scan() returns false because reading the body failed, or because the ctx
\* of the call was cancelled
ScanFailIn(i) ==
    /\ calls[i].pc = "scan"
    /\ \E cause \in Causes(TRUE) :
          calls' = [calls EXCEPT ![i] =
              [@ EXCEPT !.pendErr = <<ReadError(cause)>>, !.ending = "read",
                        !.pc = "sendErr"]]
    /\ UNCHANGED <<pairFrame, evtChans, errChans>>

\* eventChan <- event of call i meets the receive of the caller of call j on the
\* same channel
RecvIn(i, j) ==
    /\ calls[i].pc = "send"
    /\ calls[j].consumer = "recv"
    /\ EvtChanOf(i) = EvtChanOf(j)
    /\ LET event == calls[i].cur[1]
           sent == IF AfterSend(event) = "return"
                   THEN [calls[i] EXCEPT !.cur = <<>>, !.ending = "done",
                                         !.pc = FirstDeferred(calls[i].status)]
                   ELSE [calls[i] EXCEPT !.cur = <<>>, !.pc = "scan"]
       IN calls' = [k \in CallIds |->
                      LET c == IF k = i THEN sent ELSE calls[k] IN
                      IF k = j THEN [c EXCEPT !.received = Append(@, event)] ELSE c]
    /\ UNCHANGED <<pairFrame, evtChans, errChans>>

\* errChan <- err; return
SendErrIn(i) ==
    /\ calls[i].pc = "sendErr"
    /\ ErrChanHasRoom(errChans[ErrChanOf(i)].buf)
    /\ errChans' = [errChans EXCEPT ![ErrChanOf(i)].buf = @ \o calls[i].pendErr]
    /\ calls' = [calls EXCEPT ![i] =
          [@ EXCEPT !.pendErr = <<>>, !.pc = FirstDeferred(calls[i].status)]]
    /\ UNCHANGED <<pairFrame, evtChans>>

\* defer func() { _ = resp.Body.Close() }()
CloseBodyIn(i) ==
    /\ calls[i].pc = "closeBody"
    /\ calls' = [calls EXCEPT ![i] = [@ EXCEPT !.bodyClosed = @ + 1, !.pc = "closeErr"]]
    /\ UNCHANGED <<pairFrame, evtChans, errChans>>

\* defer close(errChan)
CloseErrChanIn(i) ==
    /\ calls[i].pc = "closeErr"
    /\ errChans' = [errChans EXCEPT ![ErrChanOf(i)].closed = @ + 1]
    /\ calls' = [calls EXCEPT ![i] = [@ EXCEPT !.pc = "closeEvt"]]
    /\ UNCHANGED <<pairFrame, evtChans>>

\* defer close(eventChan)
CloseEventChanIn(i) ==
    /\ calls[i].pc = "closeEvt"
    /\ evtChans' = [evtChans EXCEPT ![EvtChanOf(i)] = @ + 1]
    /\ calls' = [calls EXCEPT ![i] = [@ EXCEPT !.pc = "done"]]
    /\ UNCHANGED <<pairFrame, errChans>>

\* for event := range eventChan ends when the channel is closed
RecvClosedIn(j) ==
    /\ calls[j].consumer = "recv"
    /\ evtChans[EvtChanOf(j)] > 0
    /\ calls' = [calls EXCEPT ![j] = [@ EXCEPT !.consumer = "checkErr"]]
    /\ UNCHANGED <<pairFrame, evtChans, errChans>>

\* select { case err := <-errChan: ... default: }
CheckErrIn(j) ==
    /\ calls[j].consumer = "checkErr"
    /\ LET buf == errChans[ErrChanOf(j)].buf IN
         IF buf # <<>>
         THEN /\ calls' = [calls EXCEPT ![j] =
                    [@ EXCEPT !.gotErr = Append(@, Head(buf)), !.consumer = "finished"]]
              /\ errChans' = [errChans EXCEPT ![ErrChanOf(j)].buf = Tail(buf)]
         ELSE /\ calls' = [calls EXCEPT ![j] = [@ EXCEPT !.consumer = "finished"]]
              /\ UNCHANGED errChans
    /\ UNCHANGED <<pairFrame, evtChans>>

\* the caller of call j abandons the stream
StopIn(j) ==
    /\ calls[j].consumer = "recv"
    /\ calls' = [calls EXCEPT ![j] = [@ EXCEPT !.consumer = "stopped"]]
    /\ UNCHANGED <<pairFrame, evtChans, errChans>>

\* ---------------------------------------------------------- specifications

\* the steps of the goroutine after the request
Streaming ==
    \/ CheckResponse
    \/ ReadAllCancelled
    \/ ScanLine
    \/ ScanEOF
    \/ ScanFail
    \/ ScanStall
    \/ StallCancelled
    \/ SendErr
    \/ CloseBody
    \/ CloseErrChan
    \/ CloseEventChan

Producer ==
    \/ MarshalReq
    \/ DoRequest
    \/ Streaming

ProducerLive ==
    \/ MarshalReq
    \/ DoRequestLive
    \/ Streaming

Caller ==
    \/ \E p \in ParamsSet : StreamedChat(p)
    \/ Recv
    \/ RecvClosed
    \/ CheckErr
    \/ Stop
    \/ Cancel

Next == Producer \/ Caller

NextLive == ProducerLive \/ Caller

ProducerShape ==
    \/ MarshalReq
    \/ DoRequestShape
    \/ Streaming

NextShape == ProducerShape \/ Caller

Spec == Init /\ [][Next]_vars

\* the calls whose bodies are data lines of every payload shape
ShapeSpec == Init /\ [][NextShape]_vars

\* the goroutine is scheduled whenever it can take a step, and a caller that has not
\* abandoned the stream keeps receiving
FairSpec ==
    /\ Init
    /\ [][NextLive]_vars
    /\ WF_vars(ProducerLive)
    /\ WF_vars(Recv)
    /\ WF_vars(RecvClosed)
    /\ WF_vars(CheckErr)

ProducerFraming ==
    \/ MarshalReq
    \/ DoRequestFraming
    \/ Streaming

NextFraming == ProducerFraming \/ Caller

\* the calls whose bodies hold lines of other framings
FramingSpec == Init /\ [][NextFraming]_vars

ProducerLong ==
    \/ MarshalReq
    \/ DoRequestLong
    \/ Streaming

NextLong == ProducerLong \/ Caller

\* the calls whose bodies hold lines about the scanner's limit
LongSpec == Init /\ [][NextLong]_vars

NextOps ==
    \/ \E op \in IDOperations, memoID \in MemoIDs, idType \in IDTypeArgs,
          data \in {"ok", "unsupported"} : IDOperation(op, memoID, idType, data)
    \/ \E file \in Files, memoData \in MemoDataArgs : CreateMemoFromFile(file, memoData)

\* the memo operations, one after the other, on one client
OpsSpec == Init /\ [][NextOps]_vars

\* a references payload is given
RefInit ==
    /\ InitCall
    /\ client = NewClient("test-api-key", <<>>)
    /\ lastReq = <<>>
    /\ calls = [i \in CallIds |-> NewCall]
    /\ evtChans = [ch \in CallIds |-> 0]
    /\ errChans = [ch \in CallIds |-> [buf |-> <<>>, closed |-> 0]]
    /\ opResult = <<>>
    /\ \E j \in RefInputs :
          refs = [stage |-> "input", in |-> j, val |-> NilReferences, out |-> JInvalid]

NextRefs == DecodeRefs \/ EncodeRefs

\* every references payload is decoded and encoded again
RefSpec == RefInit /\ [][NextRefs]_vars

ProducerClient ==
    \/ MarshalReq
    \/ DoRequestClient
    \/ Streaming

NextClient ==
    \/ ProducerClient
    \/ Caller
    \/ \E op \in Operations : Operation(op)

\* a streamed call and the memo, search and chat operations, in any order, on any
\* client NewClient returns
ClientSpec == ClientInit /\ [][NextClient]_vars

NextPair ==
    \E i \in CallIds :
        \/ StreamedChatIn(i)
        \/ MarshalReqIn(i)
        \/ DoRequestIn(i)
        \/ CheckResponseIn(i)
        \/ ScanLineIn(i)
        \/ ScanEOFIn(i)
        \/ ScanFailIn(i)
        \/ \E j \in CallIds : RecvIn(i, j)
        \/ SendErrIn(i)
        \/ CloseBodyIn(i)
        \/ CloseErrChanIn(i)
        \/ CloseEventChanIn(i)
        \/ RecvClosedIn(i)
        \/ CheckErrIn(i)
        \/ StopIn(i)

\* two StreamedChat calls on one client, their steps in any order
PairSpec == Init /\ [][NextPair]_vars

\* ------------------------------------------------------------- properties

\* every error sent on errChan so far, in the order sent
ErrsSent == gotErr \o errChan

IsPrefix(s, t) == Len(s) <= Len(t) /\ SubSeq(t, 1, Len(s)) = s

Returned == pc \in {"closeBody", "closeErr", "closeEvt", "done"}

HasResponse == status # NoStatus

\* the events of a body: those of its accepted data lines, in body order, up to and
\* including the first 'done'
RECURSIVE EventsOf(_)
EventsOf(b) ==
    IF b = <<>> THEN <<>>
    ELSE LET d == DecodeLine(Head(b)) IN
         IF ~d.emit THEN EventsOf(Tail(b))
         ELSE IF d.event.Type = "done" THEN <<d.event>>
         ELSE <<d.event>> \o EventsOf(Tail(b))

\* C1: once the producer is blocked sending an event to a caller that has stopped
\* receiving and the context is cancelled, the goroutine eventually terminates.
C1_CancelUnblocksSend ==
    (pc = "send" /\ consumer = "stopped" /\ cancelled) ~> (pc = "done")

\* C2: once a response was obtained its body is eventually closed, whatever the
\* caller does with the event channel (a body that stalls for ever set aside).
C2_BodyEventuallyClosed ==
    HasResponse ~> (bodyClosed >= 1 \/ pc \in {"stalled", "readAllStalled"})

\* C3: the events the caller has received are at all times a prefix of the events
\* of the body, taken in body order and cut after the first 'done'.
C3_ReceivedIsPrefix == IsPrefix(received, EventsOf(body))

C3_Witness ==
    /\ pc = "done"
    /\ Len(received) = 3
    /\ received[2].Type = "custom"
    /\ received[1] # received[3]
    /\ received[1].Type = "token"

\* the line of the body whose event is the first 'done' (0: none)
RECURSIVE DoneLine(_, _)
DoneLine(b, i) ==
    IF i > Len(b) THEN 0
    ELSE IF DecodeLine(b[i]).emit /\ DecodeLine(b[i]).event.Type = "done" THEN i
    ELSE DoneLine(b, i + 1)

\* C4: a 'done' event is published and is the last one: once it is received the
\* goroutine has returned normally, it has read no line after the 'done' line, it
\* sends no further event and no error; and while the 'done' event is being sent
\* nothing else is read.
C4_DoneIsLast ==
    /\ \A i \in 1..Len(received) :
          received[i].Type = "done" =>
              /\ i = Len(received)
              /\ Returned
              /\ ending = "done"
              /\ pos = DoneLine(body, 1)
              /\ cur = <<>>
              /\ pendErr = <<>>
              /\ ErrsSent = <<>>
    /\ (pc = "send" /\ cur[1].Type = "done") => pos = DoneLine(body, 1)
    /\ ending = "done" => (received # <<>> /\ received[Len(received)].Type = "done")

C4_Witness ==
    /\ pc = "done"
    /\ ending = "done"
    /\ pos < Len(body)
    /\ DecodeLine(body[pos + 1]).emit
    /\ consumer = "finished"

\* the token event of a well-formed token line
TokenEvent(content) == [Type |-> "token", Content |-> <<content>>, ChatID |-> ""]
DoneEvent == [Type |-> "done", Content |-> <<>>, ChatID |-> ""]

\* a body of well-formed token lines followed by one 'done' line
IsTokenDoneBody(b) ==
    /\ Len(b) >= 1
    /\ b[Len(b)] = LDone
    /\ \A i \in 1..(Len(b) - 1) : b[i] \in {LTokA, LTokB}

TokenDoneEvents(b) ==
    [i \in 1..Len(b) |->
        IF i = Len(b) THEN DoneEvent
        ELSE IF b[i] = LTokA THEN TokenEvent("A") ELSE TokenEvent("B")]

\* C5: for a 2xx body of well-formed token lines followed by a 'done' line whose
\* reading does not fail, no error is ever sent, and a caller that has drained the
\* event channel to its close has received one token event per token line, with
\* the line's content and in order, followed by the 'done' event.
C5_TokensThenDone ==
    (status \in 200..299 /\ IsTokenDoneBody(body) /\ ending # "read") =>
        /\ ErrsSent = <<>>
        /\ pendErr = <<>>
        /\ consumer \in {"checkErr", "finished"} => received = TokenDoneEvents(body)

C5_Witness ==
    /\ body = <<LTokA, LTokB, LDone>>
    /\ consumer = "finished"
    /\ received = <<TokenEvent("A"), TokenEvent("B"), DoneEvent>>
    /\ gotErr = <<>>

\* C6: a response whose status is outside 200..299 publishes no event; once the
\* goroutine has returned exactly one error was sent, which carries the status code
\* and the body text; and at the end both channels are closed.
C6_NonSuccessStatus ==
    (HasResponse /\ status \notin 200..299) =>
        /\ received = <<>>
        /\ cur = <<>>
        /\ pc \notin {"scan", "send", "stalled"}
        /\ Len(ErrsSent) <= 1
        /\ Returned =>
              /\ Len(ErrsSent) = 1
              /\ ErrsSent[1].kind = "status"
              /\ ErrsSent[1].code = status
              /\ ErrsSent[1].text = body
        /\ pc = "done" => (errClosed = 1 /\ evtClosed = 1)

C6_Witness ==
    /\ pc = "done"
    /\ status = 300
    /\ Len(body) = 2
    /\ consumer = "finished"
    /\ Len(gotErr) = 1
    /\ gotErr[1].code = 300

C8_AtMostOneError ==
    /\ Len(ErrsSent) + Len(pendErr) <= 1
    /\ Returned =>
          /\ ending \in {"marshal", "transport", "status", "read"} =>
                (Len(ErrsSent) = 1 /\ ErrsSent[1].kind = ending)
          /\ ending \in {"done", "eof"} => ErrsSent = <<>>
          /\ ending # "none"

C8_Witness ==
    /\ pc = "done"
    /\ ending = "eof"
    /\ body = <<LPing, LOther, LBad>>
    /\ consumer = "finished"
    /\ gotErr = <<>>

\* each channel is closed at most once, by the last steps of the goroutine, and
\* nothing is sent on a channel that is closed
ChannelsSafe ==
    /\ errClosed <= 1
    /\ evtClosed <= 1
    /\ errClosed = 1 => pc \in {"closeEvt", "done"}
    /\ evtClosed = 1 => pc = "done"
    /\ pc = "done" => (errClosed = 1 /\ evtClosed = 1)
    /\ pc = "send" => evtClosed = 0
    /\ pc = "sendErr" => errClosed = 0

\* C9: when the caller never stops receiving and no read blocks for ever, a call
\* that was made ends with the goroutine terminated and both channels closed; each
\* channel is closed once, by the goroutine, and nothing is sent on it afterwards.
C9_TerminatesAndCloses ==
    /\ []ChannelsSafe
    /\ \/ <>(consumer = "stopped")
       \/ <>[](pc \in {"stalled", "readAllStalled"})
       \/ [](pc # "idle" => <>(pc = "done" /\ errClosed = 1 /\ evtClosed = 1))

C9_Witness ==
    /\ pc = "done"
    /\ consumer = "finished"
    /\ Len(received) = 2
    /\ errClosed = 1
    /\ evtClosed = 1

\* C10: the response body is closed at most once; it is closed exactly once, before
\* the channels are closed, on every return after a response was obtained, and
\* never when no response was obtained.
C10_BodyClosedOnce ==
    /\ bodyClosed <= 1
    /\ ~HasResponse => bodyClosed = 0
    /\ (HasResponse /\ pc \in {"closeErr", "closeEvt", "done"}) => bodyClosed = 1
    /\ ~Returned => bodyClosed = 0

C10_Witness ==
    /\ pc = "done"
    /\ bodyClosed = 1
    /\ ending = "read"
    /\ received # <<>>

\* the body without the lines of a set
RECURSIVE Without(_, _)
Without(b, S) ==
    IF b = <<>> THEN <<>>
    ELSE IF Head(b) \in S THEN Without(Tail(b), S)
    ELSE <<Head(b)>> \o Without(Tail(b), S)

\* the caller has received from eventChan until it was closed
Drained == consumer \in {"checkErr", "finished"}

\* the events of the lines read so far
EventsRead == EventsOf(SubSeq(body, 1, pos))

\* C11: a data line whose payload is not JSON is skipped: the events are those of
\* the body without such lines, in order; a caller that drained a call which ended
\* by 'done' or by the end of the body has received them all, and no error was sent.
C11_MalformedSkipped ==
    /\ EventsOf(body) = EventsOf(Without(body, {LBad}))
    /\ IsPrefix(received, EventsOf(Without(body, {LBad})))
    /\ (pos > 0 /\ body[pos] = LBad /\ status \in 200..299) =>
          (cur = <<>> /\ ending \in {"none", "eof", "read"})
    /\ (Drained /\ ending \in {"done", "eof"}) =>
          /\ received = EventsOf(Without(body, {LBad}))
          /\ ErrsSent = <<>>

C11_Witness ==
    /\ body = <<LTokA, LBad, LDone>>
    /\ consumer = "finished"
    /\ received = <<TokenEvent("A"), DoneEvent>>
    /\ gotErr = <<>>

\* C12: empty lines and lines beginning with ':' produce no event: a 2xx body made
\* only of them publishes nothing and ends with no error unless a read fails, and
\* in any body the events published are those of the other lines.
C12_IgnorableLines ==
    /\ (status \in 200..299 /\ \A i \in 1..Len(body) : body[i] \in {LEmpty, LPing}) =>
          /\ received = <<>>
          /\ cur = <<>>
          /\ ending \in {"none", "eof", "read"}
          /\ ending # "read" => (ErrsSent = <<>> /\ pendErr = <<>>)
    /\ IsPrefix(received, EventsOf(Without(body, {LEmpty, LPing})))
    /\ (Drained /\ ending \in {"done", "eof"}) =>
          received = EventsOf(Without(body, {LEmpty, LPing}))

C12_Witness ==
    /\ body = <<LPing, LTokA, LEmpty>>
    /\ pc = "done"
    /\ consumer = "finished"
    /\ received = <<TokenEvent("A")>>
    /\ gotErr = <<>>

\* C13: when a read of the body fails, the events received are exactly those of the
\* lines read before, none of them 'done'; exactly one error, the read failure, is
\* sent, and it is in the error channel before the event channel is closed, so a
\* caller that drains the events and then checks the error channel obtains it.
C13_ReadFailure ==
    ending = "read" =>
        /\ received = EventsRead
        /\ \A i \in 1..Len(received) : received[i].Type # "done"
        /\ cur = <<>>
        /\ Len(pendErr) + Len(ErrsSent) = 1
        /\ \A i \in 1..Len(ErrsSent) : ErrsSent[i].kind = "read"
        /\ evtClosed >= 1 => Len(ErrsSent) = 1
        /\ Drained => evtClosed = 1
        /\ consumer = "finished" => (Len(gotErr) = 1 /\ gotErr[1].kind = "read")

C13_Witness ==
    /\ ending = "read"
    /\ consumer = "finished"
    /\ Len(received) = 2
    /\ pos < Len(body)
    /\ Len(gotErr) = 1

\* C14: when a 2xx body ends without a 'done' event the call ends normally: every
\* event of the body was received, no error is sent, and both channels are closed
\* when the goroutine ends.
C14_EndWithoutDone ==
    ending = "eof" =>
        /\ Returned
        /\ pos = Len(body)
        /\ received = EventsOf(body)
        /\ \A i \in 1..Len(received) : received[i].Type # "done"
        /\ ErrsSent = <<>>
        /\ pendErr = <<>>
        /\ pc = "done" => (errClosed = 1 /\ evtClosed = 1)

C14_Witness ==
    /\ pc = "done"
    /\ ending = "eof"
    /\ Len(received) = 2
    /\ consumer = "finished"
    /\ gotErr = <<>>

\* C15: every event the caller receives has a non-empty Type.
C15_TypeNeverEmpty == \A i \in 1..Len(received) : received[i].Type # ""

\* C16: the producer holds at most one decoded event the caller has not received:
\* the events of the lines read are those received plus the one being sent, which
\* is the event of the last line read.
C16_OneEventInFlight ==
    status \in 200..299 =>
        /\ Len(cur) <= 1
        /\ (pc = "send") = (cur # <<>>)
        /\ Len(EventsRead) = Len(received) + Len(cur)
        /\ pc = "send" => (DecodeLine(body[pos]).emit /\ cur[1] = DecodeLine(body[pos]).event)

C16_Witness ==
    /\ pc = "send"
    /\ consumer = "stopped"
    /\ Len(received) = 1
    /\ pos = 2
    /\ Len(body) = 3
    /\ DecodeLine(body[3]).emit

\* C17: the send of the error never blocks: whenever the goroutine is to send its
\* error the buffer of the error channel is empty, and from there it runs to its
\* end, the body closed if there is one and both channels closed, whatever the
\* caller does; and when the event channel is closed the caller that only reads
\* events has received every event of the lines read.
C17_ErrorSendNeverBlocks ==
    /\ [](pc = "sendErr" => errChan = <<>>)
    /\ [](evtClosed = 1 /\ status \in 200..299 /\ consumer # "stopped" =>
              received = EventsRead)
    /\ (pc = "sendErr") ~>
          /\ pc = "done"
          /\ Len(ErrsSent) = 1
          /\ errClosed = 1
          /\ evtClosed = 1
          /\ bodyClosed = (IF HasResponse THEN 1 ELSE 0)

C17_Witness ==
    /\ pc = "done"
    /\ consumer = "stopped"
    /\ Len(errChan) = 1
    /\ gotErr = <<>>
    /\ received # <<>>

\* C19: the body of every request StreamedChat sends carries stream = true and the
\* fields the caller set: query, filters, system prompt, chat_id and rag_config.
C19_RequestCarriesParams ==
    \A i \in 1..Len(reqs) :
        LET sent == reqs[i].body IN
        /\ "stream" \in DOMAIN sent /\ sent["stream"] = TRUE
        /\ "query" \in DOMAIN sent /\ sent["query"] = params.Query
        /\ Len(params.Filters) > 0 =>
              ("filters" \in DOMAIN sent /\ sent["filters"] = params.Filters)
        /\ params.SystemPrompt # "" =>
              ("system_prompt" \in DOMAIN sent /\ sent["system_prompt"] = params.SystemPrompt)
        /\ params.ChatID # "" =>
              ("chat_id" \in DOMAIN sent /\ sent["chat_id"] = params.ChatID)
        /\ params.RAGConfig # <<>> =>
              ("rag_config" \in DOMAIN sent /\ sent["rag_config"] = params.RAGConfig)

\* C20: no operation writes the fields of the client: in every step of a streamed
\* call and of the memo, search and chat operations apiKey, baseURL and httpClient
\* keep the values NewClient gave them.
C20_ClientFieldsFrozen == [][client' = client]_vars

C20_Witness ==
    /\ client.baseURL = CustomURL
    /\ pc = "done"
    /\ Len(reqs) = 1
    /\ reqs[1].url = CustomURL \o <<"/api/v1/chat">>
    /\ reqs[1].auth = <<"Bearer ", client.apiKey>>
    /\ lastReq # <<>>
    /\ lastReq[1].url = CustomURL \o <<"/api/v1/memo/", "id", "/status">>

\* every error call i has sent on its error channel so far
ErrsSentIn(i) == calls[i].gotErr \o errChans[i].buf

\* the error of the return call i took
OwnError(i, e) ==
    /\ e.kind = calls[i].ending
    /\ e.kind = "status" => (e.code = calls[i].status /\ e.text = calls[i].body)

\* C18: two calls on one client are independent: whatever the other call does, the
\* caller of a call receives the events of the body of that call only, in order,
\* all of them once it has drained a call that ended by 'done' or by the end of
\* the body; the error it is given is the error of its own call; and each channel
\* is closed once, by its own call.
C18_CallsIndependent ==
    \A i \in CallIds :
        LET c == calls[i] IN
        /\ IsPrefix(c.received, EventsOf(c.body))
        /\ c.status \in 200..299 =>
              Len(c.received) + Len(c.cur) = Len(EventsOf(SubSeq(c.body, 1, c.pos)))
        /\ (c.consumer \in {"checkErr", "finished"} /\ c.ending \in {"done", "eof"}) =>
              (c.received = EventsOf(c.body) /\ ErrsSentIn(i) = <<>>)
        /\ Len(ErrsSentIn(i)) <= 1
        /\ \A k \in 1..Len(ErrsSentIn(i)) : OwnError(i, ErrsSentIn(i)[k])
        /\ (c.consumer = "finished"
               /\ c.ending \in {"marshal", "transport", "status", "read"}) =>
              Len(c.gotErr) = 1
        /\ evtChans[i] = (IF c.pc = "done" THEN 1 ELSE 0)
        /\ errChans[i].closed = (IF c.pc \in {"closeEvt", "done"} THEN 1 ELSE 0)
        /\ c.consumer \in {"checkErr", "finished"} => c.pc = "done"

\* the first call is stuck on a caller that abandoned it, the second ended by a
\* cancelled read after one event, a third outcome is covered by the formula
C18_Witness ==
    /\ calls[1].pc = "send"
    /\ calls[1].consumer = "stopped"
    /\ calls[1].received = <<TokenEvent("A")>>
    /\ calls[2].consumer = "finished"
    /\ calls[2].body = <<LTokB, LTokB>>
    /\ calls[2].received = <<TokenEvent("B")>>
    /\ Len(calls[2].gotErr) = 1
    /\ calls[2].gotErr[1] = ReadError("canceled")

\* C22: when the request cannot be serialized the call ends there: no request is
\* sent, no event is published, the serialization error is the one error sent, the
\* body is never closed (there is none) and both channels are closed at the end.
C22_MarshalFailure ==
    (params = BadParams /\ pc \notin {"idle", "marshal"}) =>
        /\ ending = "marshal"
        /\ reqs = <<>>
        /\ status = NoStatus
        /\ received = <<>>
        /\ cur = <<>>
        /\ pendErr \o ErrsSent = <<MarshalError>>
        /\ bodyClosed = 0
        /\ pc = "done" => (errClosed = 1 /\ evtClosed = 1 /\ ErrsSent = <<MarshalError>>)
        /\ consumer = "finished" => gotErr = <<MarshalError>>

C22_Witness ==
    /\ params = BadParams
    /\ pc = "done"
    /\ consumer = "finished"
    /\ gotErr = <<MarshalError>>
    /\ reqs = <<>>

\* C23: a call makes one request attempt at most; when the transport fails before a
\* response, also by a cancelled context, there was exactly one attempt, no event
\* is published, the failure is the one error sent and both channels are closed.
C23_TransportFailure ==
    /\ Len(reqs) <= 1
    /\ pc \in {"idle", "marshal", "request"} => reqs = <<>>
    /\ ending = "transport" =>
          /\ Len(reqs) = 1
          /\ status = NoStatus
          /\ received = <<>>
          /\ cur = <<>>
          /\ Len(pendErr \o ErrsSent) = 1
          /\ (pendErr \o ErrsSent)[1].kind = "transport"
          /\ (pendErr \o ErrsSent)[1].cause = "canceled" => cancelled
          /\ bodyClosed = 0
          /\ pc = "done" => (errClosed = 1 /\ evtClosed = 1 /\ Len(ErrsSent) = 1)

C23_Witness ==
    /\ ending = "transport"
    /\ pc = "done"
    /\ consumer = "finished"
    /\ gotErr = <<TransportError("canceled")>>
    /\ Len(reqs) = 1

\* the call ended by a failure
Failed == ending \in {"marshal", "transport", "status", "read"}

\* C28: the error is sent and the error channel is closed before the event channel
\* is closed: whenever the event channel is closed the error channel is closed and
\* an error was sent on it exactly when the call failed, so that a caller that
\* drains the events and then checks the error channel once gets an error exactly
\* when the call failed.
C28_ErrorBeforeEventClose ==
    /\ evtClosed >= 1 =>
          /\ errClosed = 1
          /\ pendErr = <<>>
          /\ (Len(ErrsSent) = 1) = Failed
          /\ (ErrsSent = <<>>) = ~Failed
    /\ consumer = "checkErr" => (evtClosed >= 1 /\ (errChan # <<>>) = Failed)
    /\ consumer = "finished" => (Len(gotErr) = 1) = Failed

C28_Witness ==
    /\ consumer = "finished"
    /\ ending = "status"
    /\ Len(gotErr) = 1
    /\ gotErr[1].code = 404
    /\ errClosed = 1
    /\ evtClosed = 1

\* the caller has received the 'done' event
DoneReceived == received # <<>> /\ received[Len(received)].Type = "done"

\* C29: once the caller has received the 'done' event the goroutine sends nothing
\* more: it is in its deferred calls, none of which waits for the caller, and with
\* the caller gone it closes the body and both channels and terminates.
C29_StopAfterDone ==
    /\ [](DoneReceived =>
            /\ pc \in {"closeBody", "closeErr", "closeEvt", "done"}
            /\ cur = <<>>
            /\ pendErr = <<>>)
    /\ (DoneReceived /\ consumer = "stopped") ~>
          (pc = "done" /\ bodyClosed = 1 /\ errClosed = 1 /\ evtClosed = 1
             /\ consumer = "stopped")

C29_Witness ==
    /\ DoneReceived
    /\ consumer = "stopped"
    /\ pc = "done"
    /\ pos < Len(body)
    /\ Len(received) = 2

\* a line that is not empty, does not begin with ':' and does not begin with the six
\* characters of "data: "
Unframed(line) ==
    /\ line # <<>>
    /\ line[1] # ":"
    /\ ~(Len(line) >= 6 /\ SubSeq(line, 1, 6) = <<"d", "a", "t", "a", ":", " ">>)

\* the body without its lines of other framings
RECURSIVE Framed(_)
Framed(b) ==
    IF b = <<>> THEN <<>>
    ELSE IF Unframed(Head(b)) THEN Framed(Tail(b))
    ELSE <<Head(b)>> \o Framed(Tail(b))

\* C27: a line of another framing produces no event and no error and the reading
\* goes on: the events received are those of the other lines of the body, in order,
\* all of them once the caller drained a call that ended by 'done' or by the end of
\* the body, and no error is sent for such a line.
C27_OtherFramingIgnored ==
    /\ IsPrefix(received, EventsOf(Framed(body)))
    /\ (pos > 0 /\ Unframed(body[pos]) /\ status \in 200..299) =>
          (cur = <<>> /\ ending \in {"none", "eof", "read"})
    /\ (Drained /\ ending \in {"done", "eof"}) =>
          /\ received = EventsOf(Framed(body))
          /\ ErrsSent = <<>>

C27_Witness ==
    /\ body = <<LNoSpace, LOther, LTokA>>
    /\ pc = "done"
    /\ consumer = "finished"
    /\ received = <<TokenEvent("A")>>
    /\ gotErr = <<>>

\* C30: a line longer than 64 KiB is not read over: neither it nor any line after
\* it is ever consumed, the events received are events of the lines before it, and
\* a 2xx call that stops in front of it ends by a read failure, with one error
\* sent and every event of the lines before it delivered.
C30_LongLineEndsStream ==
    \A i \in 1..Len(body) :
        (LineBytes(body[i]) > 65536 /\ status \in 200..299) =>
            /\ pos < i
            /\ IsPrefix(received, EventsOf(SubSeq(body, 1, i - 1)))
            /\ (Returned /\ pos = i - 1 /\ ending # "done") =>
                  /\ ending = "read"
                  /\ received = EventsOf(SubSeq(body, 1, i - 1))
                  /\ Len(ErrsSent) = 1
                  /\ ErrsSent[1].kind = "read"

C30_Witness ==
    /\ body = <<LWide, LOver, LTokA>>
    /\ pc = "done"
    /\ consumer = "finished"
    /\ received = <<TokenEvent("W")>>
    /\ gotErr = <<ReadError("token too long")>>

\* C21: a references mapping decoded into References and encoded again is a mapping
\* with the same keys and, under each key, the same memo_uuid and memo_title; the
\* decoding of such a mapping returns no error.
C21_ReferencesRoundTrip ==
    refs.in \in RefMappings =>
        /\ refs.stage \in {"decoded", "encoded"} =>
              (refs.val.ok /\ ~refs.val.nil /\ DOMAIN refs.val.m = DOMAIN refs.in.f)
        /\ refs.stage = "encoded" =>
              /\ refs.out.k = "object"
              /\ DOMAIN refs.out.f = DOMAIN refs.in.f
              /\ \A k \in DOMAIN refs.in.f :
                    /\ refs.out.f[k].k = "object"
                    /\ DOMAIN refs.out.f[k].f = {"memo_uuid", "memo_title"}
                    /\ refs.out.f[k].f.memo_uuid = refs.in.f[k].f.memo_uuid
                    /\ refs.out.f[k].f.memo_title = refs.in.f[k].f.memo_title

C21_Witness ==
    /\ refs.stage = "encoded"
    /\ refs.in \in RefMappings
    /\ DOMAIN refs.in.f = RefKeys
    /\ refs.in.f["1"].f.memo_title = JStr("")
    /\ refs.in.f["10"].f.memo_uuid = JStr("u")
    /\ refs.out = refs.in

\* the result of the last memo operation, when it was one of the four that take an
\* idType
IDResult == opResult # <<>> /\ opResult[1].call.name # "CreateMemoFromFile"

\* C24: with an idType that is neither memo_uuid nor reference_id the operation
\* returns an error and sends no request; with no idType it sends what it sends
\* with memo_uuid, a request without query; and the request carries id_type, with
\* the value reference_id, exactly when the idType is reference_id.
C24_IDTypeValidation ==
    IDResult =>
        LET r == opResult[1]
            t == r.call.idType
        IN
        /\ (Len(t) > 0 /\ t[1] \notin {"memo_uuid", "reference_id"}) =>
              (r.err # "" /\ r.sent = <<>>)
        /\ \A q \in 1..Len(r.sent) :
              /\ ("id_type" \in DOMAIN r.sent[q].query) = (t = <<"reference_id">>)
              /\ t = <<"reference_id">> => r.sent[q].query = [id_type |-> "reference_id"]
              /\ t \in {<<>>, <<"memo_uuid">>} => r.sent[q].query = <<>>
        /\ Len(r.sent) <= 1

C24_Witness ==
    /\ IDResult
    /\ opResult[1].call.name = "CheckMemoStatus"
    /\ opResult[1].call.idType = <<"invalid">>
    /\ opResult[1].err = "invalid idType"
    /\ opResult[1].sent = <<>>

\* the result of the last memo operation, when it was CreateMemoFromFile on a file
\* that exists
FileResult ==
    /\ opResult # <<>>
    /\ opResult[1].call.name = "CreateMemoFromFile"
    /\ opResult[1].call.file[1].exists

\* C25: a file of more than 100*1024*1024 bytes is rejected with the error of the
\* 100MB limit and no request is sent for it; a file of that size or less is not
\* rejected with that error.
C25_FileSizeLimit ==
    FileResult =>
        LET r == opResult[1]
            size == r.call.file[1].size
        IN
        /\ size > 100 * 1024 * 1024 =>
              (r.err = "file size exceeds 100MB limit" /\ r.sent = <<>>)
        /\ size <= 100 * 1024 * 1024 => r.err # "file size exceeds 100MB limit"

C25_Witness ==
    /\ FileResult
    /\ opResult[1].call.file[1].size = 100 * 1024 * 1024 + 1
    /\ opResult[1].err = "file size exceeds 100MB limit"
    /\ opResult[1].sent = <<>>

\* C26: a CreateMemoFromFile that returns a memo has sent one POST request to
\* /api/v1/memo with the bearer Authorization header and a multipart/form-data
\* content type, and returns the memo uuid of the response.
C26_UploadRequest ==
    (FileResult /\ opResult[1].err = "" /\ opResult[1].resp # <<>>) =>
        LET r == opResult[1] IN
        /\ Len(r.sent) = 1
        /\ r.sent[1].method = "POST"
        /\ r.sent[1].path = <<"/api/v1/memo">>
        /\ r.sent[1].auth = <<"Bearer ", client.apiKey>>
        /\ r.sent[1].contentType[1] = "multipart/form-data"
        /\ r.value = MemoUUID

====
